---- MODULE Spec2Model ----
(***************************************************************************)
(* Constant-sum curve contract (src/src/lib.rs): the ConstantSumCurve      *)
(* storage struct, its constructor, version() and the two pricing entry    *)
(* points, together with the host event log that evm::log appends to.      *)
(***************************************************************************)
EXTENDS Integers, Sequences, FiniteSets, TLC

(***************************************************************************)
(* Bounds of the model.                                                    *)
(***************************************************************************)
\* largest value of the model's Amount type; U256 in the source (largest
\* value 2^256 - 1), scaled down so that both boundaries are enumerated
MaxAmount == 1
\* number of pricing calls a behaviour makes (the event log is unbounded)
MaxCalls == 2

U256_MAX == MaxAmount
U256 == 0 .. U256_MAX

\* Currency = Address; the two addresses the unit tests use
Currency == {"CURRENCY_1", "CURRENCY_2"}

\* strings a host passes to the constructor
Versions == {"1.0.0", "2.0.0"}
\* a StorageString that was never written reads as the empty string
EmptyString == ""

VARIABLES
    version,      \* ConstantSumCurve.version, the stored string
    log,          \* the host's event log, oldest record first
    last,         \* the most recent call: its operation, arguments, result
    calls,        \* history of the pricing calls made, oldest first
    constructed,  \* whether constructor has run, and its last argument
    early         \* whether a pricing call ran before constructor did

vars == <<version, log, last, calls, constructed, early>>

(***************************************************************************)
(* Types of the source.                                                    *)
(***************************************************************************)
\* Result<U256, Error>::Ok
Ok(v) == [tag |-> "Ok", val |-> v]
\* Error::CustomError(CurveCustomError {}): no payload
Error == [tag |-> "CustomError"]

\* event AmountInCalculated(uint256 amount_out, address input,
\*                          address output, bool zero_for_one)
AmountInCalculated(amount_out, input, output, zero_for_one) ==
    [name |-> "AmountInCalculated",
     data |-> <<amount_out, input, output, zero_for_one>>]

\* event AmountOutCalculated(uint256 amount_in, address input,
\*                           address output, bool zero_for_one)
AmountOutCalculated(amount_in, input, output, zero_for_one) ==
    [name |-> "AmountOutCalculated",
     data |-> <<amount_in, input, output, zero_for_one>>]

(***************************************************************************)
(* Private helpers of ConstantSumCurve.                                    *)
(***************************************************************************)
\* variant: charges one unit on top of the requested output
calculate_amount_in_plus_one(amount_out, input, output, zero_for_one) ==
    (amount_out + 1) % (U256_MAX + 1)

\* variant: prices the reverse direction differently
calculate_amount_in_directional(amount_out, input, output, zero_for_one) ==
    IF zero_for_one THEN amount_out ELSE U256_MAX - amount_out

\* In constant-sum curve, tokens trade exactly 1:1
calculate_amount_in(amount_out, input, output, zero_for_one) ==
    LET amount_in == amount_out
    IN  amount_in

\* variant: pays out one unit more than was put in
calculate_amount_out_plus_one(amount_in, input, output, zero_for_one) ==
    (amount_in + 1) % (U256_MAX + 1)

\* variant: pays out the complement of the input
calculate_amount_out_complement(amount_in, input, output, zero_for_one) ==
    U256_MAX - amount_in

\* in constant-sum curve, tokens trade exactly 1:1
calculate_amount_out(amount_in, input, output, zero_for_one) ==
    LET amount_out == amount_in
    IN  amount_out

\* evm::log: the host appends the record to its log
evm_log(event) == Append(log, event)

\* the record of one pricing call kept in `last` and `calls`
Call(op, amount, input, output, zero_for_one, result) ==
    [op |-> op, amount |-> amount, input |-> input, output |-> output,
     zero_for_one |-> zero_for_one, result |-> result]

PricingOps == {"get_amount_in_for_exact_output",
               "get_amount_out_from_exact_input"}

(***************************************************************************)
(* Initial state: the contract's storage as deployed, nothing called yet.  *)
(***************************************************************************)
Init ==
    /\ version = EmptyString
    /\ log = <<>>
    /\ last = [op |-> "none"]
    /\ calls = <<>>
    /\ constructed = [done |-> FALSE, arg |-> EmptyString]
    /\ early = FALSE

(***************************************************************************)
(* Operations.                                                             *)
(***************************************************************************)
\* #[constructor] pub fn constructor(&mut self, version: String)
constructor(v) ==
    /\ version' = v
    /\ constructed' = [done |-> TRUE, arg |-> v]
    /\ last' = [op |-> "constructor", arg |-> v]
    /\ UNCHANGED <<log, calls, early>>

\* variant: version() that logs an event of its own
IUniswapV4Curve_version_logging ==
    /\ last' = [op |-> "version", result |-> version]
    /\ log' = Append(log, [name |-> "Version", data |-> <<version>>])
    /\ UNCHANGED <<version, calls, constructed, early>>

\* fn version(&self) -> String
IUniswapV4Curve_version ==
    /\ last' = [op |-> "version", result |-> version]
    /\ UNCHANGED <<version, log, calls, constructed, early>>

\* variant: the pricing call clears the stored version
get_amount_in_for_exact_output_stamping(amount_out, input, output, zero_for_one) ==
    LET amount_in == calculate_amount_in(amount_out, input, output, zero_for_one)
        rec == Call("get_amount_in_for_exact_output", amount_out, input,
                    output, zero_for_one, Ok(amount_in))
    IN  /\ log' = evm_log(AmountInCalculated(amount_out, input, output,
                                             zero_for_one))
        /\ last' = rec
        /\ calls' = Append(calls, rec)
        /\ early' = (early \/ ~constructed.done)
        /\ version' = EmptyString
        /\ UNCHANGED constructed

\* variant: the largest amount is rejected with CustomError
get_amount_in_for_exact_output_failing(amount_out, input, output, zero_for_one) ==
    LET rec == Call("get_amount_in_for_exact_output", amount_out, input,
                    output, zero_for_one,
                    IF amount_out = U256_MAX THEN Error ELSE Ok(amount_out))
    IN  /\ log' = evm_log(AmountInCalculated(amount_out, input, output,
                                             zero_for_one))
        /\ last' = rec
        /\ calls' = Append(calls, rec)
        /\ early' = (early \/ ~constructed.done)
        /\ UNCHANGED <<version, constructed>>

get_amount_in_for_exact_output(amount_out, input, output, zero_for_one) ==
    LET amount_in == calculate_amount_in(amount_out, input, output, zero_for_one)
        rec == Call("get_amount_in_for_exact_output", amount_out, input,
                    output, zero_for_one, Ok(amount_in))
    IN  /\ log' = evm_log(AmountInCalculated(amount_out, input, output,
                                             zero_for_one))
        /\ last' = rec
        /\ calls' = Append(calls, rec)
        /\ early' = (early \/ ~constructed.done)
        /\ UNCHANGED <<version, constructed>>

\* variant: the event carries input and output in the wrong order
get_amount_out_from_exact_input_swapped(amount_in, input, output, zero_for_one) ==
    LET amount_out == calculate_amount_out(amount_in, input, output, zero_for_one)
        rec == Call("get_amount_out_from_exact_input", amount_in, input,
                    output, zero_for_one, Ok(amount_out))
    IN  /\ log' = evm_log(AmountOutCalculated(amount_in, output, input,
                                              zero_for_one))
        /\ last' = rec
        /\ calls' = Append(calls, rec)
        /\ early' = (early \/ ~constructed.done)
        /\ UNCHANGED <<version, constructed>>

\* variant: CustomError while the version is unset
get_amount_out_from_exact_input_requiring_version(amount_in, input, output, zero_for_one) ==
    LET amount_out == calculate_amount_out(amount_in, input, output, zero_for_one)
        rec == Call("get_amount_out_from_exact_input", amount_in, input,
                    output, zero_for_one,
                    IF version = EmptyString THEN Error ELSE Ok(amount_out))
    IN  /\ log' = evm_log(AmountOutCalculated(amount_in, input, output,
                                              zero_for_one))
        /\ last' = rec
        /\ calls' = Append(calls, rec)
        /\ early' = (early \/ ~constructed.done)
        /\ UNCHANGED <<version, constructed>>

get_amount_out_from_exact_input(amount_in, input, output, zero_for_one) ==
    LET amount_out == calculate_amount_out(amount_in, input, output, zero_for_one)
        rec == Call("get_amount_out_from_exact_input", amount_in, input,
                    output, zero_for_one, Ok(amount_out))
    IN  /\ log' = evm_log(AmountOutCalculated(amount_in, input, output,
                                              zero_for_one))
        /\ last' = rec
        /\ calls' = Append(calls, rec)
        /\ early' = (early \/ ~constructed.done)
        /\ UNCHANGED <<version, constructed>>

\* the host calls the entry points in any order, with any arguments
Next ==
    \/ \E v \in Versions : constructor(v)
    \/ IUniswapV4Curve_version
    \/ /\ Len(log) < MaxCalls
       /\ \E amount_out \in U256, input \in Currency, output \in Currency,
             zero_for_one \in BOOLEAN :
             get_amount_in_for_exact_output(amount_out, input, output,
                                            zero_for_one)
    \/ /\ Len(log) < MaxCalls
       /\ \E amount_in \in U256, input \in Currency, output \in Currency,
             zero_for_one \in BOOLEAN :
             get_amount_out_from_exact_input(amount_in, input, output,
                                             zero_for_one)

Spec == Init /\ [][Next]_vars

(***************************************************************************)
(* Pricing calls on an engine constructed with version "1.0.0": one call   *)
(* more than under Spec, so that a call fits between two related ones.     *)
(***************************************************************************)
InitConstructed ==
    /\ version = "1.0.0"
    /\ log = <<>>
    /\ last = [op |-> "constructor", arg |-> "1.0.0"]
    /\ calls = <<>>
    /\ constructed = [done |-> TRUE, arg |-> "1.0.0"]
    /\ early = FALSE

NextPricing ==
    \/ /\ Len(log) < MaxCalls + 1
       /\ \E amount_out \in U256, input \in Currency, output \in Currency,
             zero_for_one \in BOOLEAN :
             get_amount_in_for_exact_output(amount_out, input, output,
                                            zero_for_one)
    \/ /\ Len(log) < MaxCalls + 1
       /\ \E amount_in \in U256, input \in Currency, output \in Currency,
             zero_for_one \in BOOLEAN :
             get_amount_out_from_exact_input(amount_in, input, output,
                                             zero_for_one)

SpecPricing == InitConstructed /\ [][NextPricing]_vars

(***************************************************************************)
(* Helpers of the properties.                                              *)
(***************************************************************************)
IsPricing(r) == r.op \in PricingOps
InCalls == {i \in 1 .. Len(calls) : calls[i].op = "get_amount_in_for_exact_output"}
OutCalls == {i \in 1 .. Len(calls) : calls[i].op = "get_amount_out_from_exact_input"}
\* the event a pricing call with record r has to leave in the log
EventOf(r) ==
    [name |-> IF r.op = "get_amount_in_for_exact_output"
              THEN "AmountInCalculated" ELSE "AmountOutCalculated",
     data |-> <<r.amount, r.input, r.output, r.zero_for_one>>]
\* the step is a pricing call: the history grows by the call in `last`
PricingStep == calls' = Append(calls, last') /\ IsPricing(last')

(***************************************************************************)
(* C1: every get_amount_in_for_exact_output call, whatever its currencies, *)
(* direction and the state it ran in, returned Ok(amount_out).             *)
(***************************************************************************)
C1_AmountInIsAmountOut ==
    \A i \in InCalls : calls[i].result = Ok(calls[i].amount)

C1_Witness ==
    /\ last.op = "get_amount_in_for_exact_output"
    /\ last.amount = U256_MAX
    /\ last.input = last.output
    /\ ~last.zero_for_one
    /\ Len(calls) = MaxCalls
    /\ last.result = Ok(U256_MAX)

(***************************************************************************)
(* C2: every get_amount_out_from_exact_input call, whatever its            *)
(* currencies, direction and the state it ran in, returned Ok(amount_in).  *)
(***************************************************************************)
C2_AmountOutIsAmountIn ==
    \A i \in OutCalls : calls[i].result = Ok(calls[i].amount)

C2_Witness ==
    /\ last.op = "get_amount_out_from_exact_input"
    /\ last.amount = U256_MAX
    /\ last.input # last.output
    /\ last.zero_for_one
    /\ Len(calls) = MaxCalls
    /\ last.result = Ok(U256_MAX)

(***************************************************************************)
(* C3: round trip.  Whenever a get_amount_out_from_exact_input call is fed *)
(* the amount an earlier get_amount_in_for_exact_output(x, A, B, d)        *)
(* returned, with the currencies swapped and the direction negated, it     *)
(* returns x, also when other pricing calls were made in between.          *)
(***************************************************************************)
IsRoundTrip(i, j) ==
    /\ i \in InCalls /\ j \in OutCalls /\ i < j
    /\ calls[i].result.tag = "Ok"
    /\ calls[j].amount = calls[i].result.val
    /\ calls[j].input = calls[i].output
    /\ calls[j].output = calls[i].input
    /\ calls[j].zero_for_one = ~calls[i].zero_for_one

C3_RoundTrip ==
    \A i, j \in 1 .. Len(calls) :
        IsRoundTrip(i, j) => calls[j].result = Ok(calls[i].amount)

C3_Witness ==
    /\ Len(calls) = 3
    /\ constructed.done
    /\ IsRoundTrip(1, 3)
    /\ calls[1].amount = U256_MAX
    /\ calls[1].input # calls[1].output
    /\ calls[2].amount # calls[1].amount
    /\ calls[3].result = Ok(U256_MAX)

(***************************************************************************)
(* C4: after constructor(v), version() returns v after any number and any  *)
(* order of pricing and version calls: the stored string is the            *)
(* constructor's argument, a version call returns it, and no pricing call  *)
(* and no version call writes it.                                          *)
(***************************************************************************)
C4_VersionReturned ==
    /\ [](constructed.done =>
            /\ version = constructed.arg
            /\ (last.op = "version" => last.result = constructed.arg))
    /\ [][(PricingStep \/ last'.op = "version") => version' = version]_vars

C4_Witness ==
    /\ constructed.done /\ ~early
    /\ constructed.arg = "2.0.0"
    /\ Len(calls) = MaxCalls
    /\ InCalls # {} /\ OutCalls # {}
    /\ last.op = "version"
    /\ last.result = "2.0.0"

(***************************************************************************)
(* C5: each pricing call appends exactly one event: AmountInCalculated for *)
(* get_amount_in_for_exact_output, AmountOutCalculated for                 *)
(* get_amount_out_from_exact_input, carrying the call's four arguments in  *)
(* the order (amount, input, output, zero_for_one); the event's amount is  *)
(* the amount the call returns.                                            *)
(***************************************************************************)
C5_OneEventPerCall ==
    [][PricingStep =>
          /\ log' = Append(log, EventOf(last'))
          /\ last'.result = Ok(log'[Len(log')].data[1])]_vars

C5_Witness ==
    /\ Len(log) = 2
    /\ last.op = "get_amount_out_from_exact_input"
    /\ last.input # last.output
    /\ log[2] = AmountOutCalculated(last.amount, last.input, last.output,
                                    last.zero_for_one)
    /\ log[1].name = "AmountInCalculated"
    /\ log[1].data # log[2].data

(***************************************************************************)
(* C6: no pricing call returns CustomError or overflows: every result is   *)
(* Ok with a value of the Amount type, the boundaries 0 and the largest    *)
(* amount included.                                                        *)
(***************************************************************************)
C6_NeverFails ==
    /\ \A i \in 1 .. Len(calls) :
          calls[i].result.tag = "Ok" /\ calls[i].result.val \in U256
    /\ IsPricing(last) => last.result # Error

C6_Witness ==
    /\ Len(calls) = 2
    /\ calls[1].op = "get_amount_in_for_exact_output"
    /\ calls[1].amount = 0
    /\ calls[2].op = "get_amount_out_from_exact_input"
    /\ calls[2].amount = U256_MAX
    /\ calls[1].result = Ok(0)
    /\ calls[2].result = Ok(U256_MAX)

(***************************************************************************)
(* C7 as stated: version() and the pricing operations execute only after   *)
(* constructor has completed, so while the version is unset no call has    *)
(* returned and no event has been logged.                                  *)
(***************************************************************************)
C7_NoCallBeforeConstruction ==
    ~constructed.done => last.op = "none" /\ calls = <<>> /\ log = <<>>

(***************************************************************************)
(* C7 amended: construction is not enforced.  version() and the pricing    *)
(* operations can execute before constructor has run; while the version is *)
(* unset it reads as the empty string, version() returns the empty string, *)
(* and every pricing call made so far returned Ok(amount) and logged its   *)
(* one event.                                                              *)
(***************************************************************************)
C7_CallableUnconstructed ==
    ~constructed.done =>
        /\ version = EmptyString
        /\ last.op = "version" => last.result = EmptyString
        /\ Len(log) = Len(calls)
        /\ \A i \in 1 .. Len(calls) :
              /\ calls[i].result = Ok(calls[i].amount)
              /\ log[i] = EventOf(calls[i])

C7_Witness ==
    /\ ~constructed.done
    /\ version = EmptyString
    /\ Len(calls) = 2
    /\ calls[1].op = "get_amount_in_for_exact_output"
    /\ calls[1].result = Ok(U256_MAX)
    /\ last.op = "get_amount_out_from_exact_input"
    /\ last.result = Ok(0)
    /\ Len(log) = 2

C9_DependsOnlyOnAmount ==
    \A i, j \in 1 .. Len(calls) :
        (calls[i].op = calls[j].op /\ calls[i].amount = calls[j].amount)
            => calls[i].result = calls[j].result

\* two calls of one operation with the same amount and every other input
\* different: call 1 ran on a fresh engine with the version unset, call 2
\* after it and after constructor
C9_Witness ==
    /\ Len(calls) = 2
    /\ early /\ constructed.done /\ IsPricing(last)
    /\ version # EmptyString
    /\ calls[1].op = calls[2].op
    /\ calls[1].amount = calls[2].amount
    /\ calls[1].input # calls[2].input
    /\ calls[1].output # calls[2].output
    /\ calls[1].zero_for_one # calls[2].zero_for_one
    /\ calls[1].result = calls[2].result

(***************************************************************************)
(* C10: the event log is exactly the sequence of pricing calls made, in    *)
(* call order: one record per pricing call, the i-th with the kind and     *)
(* arguments of the i-th call; records already logged are never changed or *)
(* removed; version() appends nothing.                                     *)
(***************************************************************************)
C10_LogIsCallHistory ==
    /\ [](/\ Len(log) = Len(calls)
          /\ \A i \in 1 .. Len(calls) : log[i] = EventOf(calls[i]))
    /\ [][/\ Len(log') >= Len(log)
          /\ SubSeq(log', 1, Len(log)) = log
          /\ last'.op = "version" => log' = log]_vars

C10_Witness ==
    /\ Len(log) = 2
    /\ last.op = "version"
    /\ constructed.done
    /\ log[1].name = "AmountOutCalculated"
    /\ log[2].name = "AmountInCalculated"
    /\ log[1].data # log[2].data
    /\ \A i \in 1 .. 2 : log[i] = EventOf(calls[i])

====
